---- MODULE Spec2Model ----
(***************************************************************************)
(* Model of allabolag-mcp: the segmentation search                         *)
(* (src/src/tools/segmentation-search.ts, first revision, lines 1-541),    *)
(* specification Spec; its URL builder and its total-count extractor on    *)
(* their own, SpecUrl and SpecCount; the same search on pages of other    *)
(* headings and cards, SpecCards; two searches in flight in one process,   *)
(* SpecPair; and getCompanyInfo (src/src/scraper.ts), SpecInfo.            *)
(*                                                                         *)
(* Strings that the code inspects character by character (page texts,      *)
(* names, links) are sequences of one-character strings.  Values the code  *)
(* only compares as a whole (the sort parameter) are TLA+ strings.  An     *)
(* optional value is the empty tuple (undefined) or a one-element tuple.   *)
(***************************************************************************)
EXTENDS Integers, Sequences, FiniteSets, TLC

VARIABLES pc, params, url, html, nextData, response, error, fetchCalls, prev, random

vars == <<pc, params, url, html, nextData, response, error, fetchCalls, prev, random>>

-----------------------------------------------------------------------------
(* Optional values: undefined, or a present value.                         *)

None == <<>>

Some(v) == <<v>>

IsSome(o) == o # <<>>

Get(o) == o[1]

-----------------------------------------------------------------------------
(* Bounds of the model.                                                    *)

\* Largest number of company cards on one fetched page.
MaxCards == 2

\* Largest number of companies that a data block embedded in a page lists.
MaxBlockEntries == 1

\* Math.random() is drawn from {0/RandomGrain, ..., (RandomGrain-1)/RandomGrain}.
RandomGrain == 2

-----------------------------------------------------------------------------
(* Character-level string functions of JavaScript used by the code.        *)

Digit == {"0", "1", "2", "3", "4", "5", "6", "7", "8", "9"}

\* \s of a JavaScript regular expression, for the characters pages hold here.
Space == {" ", "\t", "\n"}

DigitVal(c) ==
    CASE c = "0" -> 0 [] c = "1" -> 1 [] c = "2" -> 2 [] c = "3" -> 3
      [] c = "4" -> 4 [] c = "5" -> 5 [] c = "6" -> 6 [] c = "7" -> 7
      [] c = "8" -> 8 [] c = "9" -> 9

DigitChar(d) ==
    CASE d = 0 -> "0" [] d = 1 -> "1" [] d = 2 -> "2" [] d = 3 -> "3"
      [] d = 4 -> "4" [] d = 5 -> "5" [] d = 6 -> "6" [] d = 7 -> "7"
      [] d = 8 -> "8" [] d = 9 -> "9"

IsDigit(c) == c \in Digit

IsSpace(c) == c \in Space

\* text.substring(i-1, j): the characters i..j (empty when j < i).
Sub(t, i, j) == IF j < i THEN <<>> ELSE SubSeq(t, i, j)

\* Whether pattern p occurs in t starting at position i.
MatchesAt(t, p, i) ==
    /\ i >= 1
    /\ i + Len(p) - 1 <= Len(t)
    /\ \A k \in 1..Len(p) : t[i + k - 1] = p[k]

\* text.indexOf(p) + 1: the first position where p occurs, 0 when it does not.
IndexOf(t, p) ==
    LET hits == {i \in 1..(Len(t) + 1) : MatchesAt(t, p, i)}
    IN  IF hits = {} THEN 0 ELSE CHOOSE i \in hits : \A j \in hits : i <= j

\* text.includes(p)
Includes(t, p) == IndexOf(t, p) # 0

\* text.replace(p, r) with a string pattern: only the first occurrence.
ReplaceFirst(t, p, r) ==
    LET i == IndexOf(t, p)
    IN  IF i = 0 THEN t
        ELSE Sub(t, 1, i - 1) \o r \o Sub(t, i + Len(p), Len(t))

\* text.trim()
Trim(t) ==
    LET keep == {i \in 1..Len(t) : ~IsSpace(t[i])}
    IN  IF keep = {} THEN <<>>
        ELSE LET lo == CHOOSE i \in keep : \A j \in keep : i <= j
                 hi == CHOOSE i \in keep : \A j \in keep : i >= j
             IN  SubSeq(t, lo, hi)

\* text.replace(/[^0-9]/g, "")
KeepDigits(t) == SelectSeq(t, IsDigit)

\* text.replace(/\s/g, "")
DropSpaces(t) == SelectSeq(t, LAMBDA c : ~IsSpace(c))

RECURSIVE ParseDigits(_)
\* parseInt of a non-empty string of digits.
ParseDigits(ds) ==
    IF ds = <<>> THEN 0
    ELSE 10 * ParseDigits(Sub(ds, 1, Len(ds) - 1)) + DigitVal(ds[Len(ds)])

RECURSIVE ToChars(_)
\* String(n) for an integer n >= 0, as a template literal interpolates it.
ToChars(n) ==
    IF n < 10 THEN <<DigitChar(n)>>
    ELSE ToChars(n \div 10) \o <<DigitChar(n % 10)>>

RECURSIVE ConcatAll(_)
\* The texts of a sequence of nodes, joined in document order.
ConcatAll(ts) ==
    IF ts = <<>> THEN <<>> ELSE Head(ts) \o ConcatAll(Tail(ts))

\* The letters of the texts of the model, lower case and upper case, position
\* by position.  Each has an upper-case form of one character.
LowerLetters == <<"a", "b", "c", "d", "e", "f", "g", "h", "i", "j", "k", "l", "m", "n", "o", "p", "q", "r", "s", "t", "u", "v", "w", "x", "y", "z", "å", "ä", "ö">>

UpperLetters == <<"A", "B", "C", "D", "E", "F", "G", "H", "I", "J", "K", "L", "M", "N", "O", "P", "Q", "R", "S", "T", "U", "V", "W", "X", "Y", "Z", "Å", "Ä", "Ö">>

\* The position of character c in the sequence of characters cs, 0 when absent.
PosIn(cs, c) ==
    IF \E i \in 1..Len(cs) : cs[i] = c
    THEN CHOOSE i \in 1..Len(cs) : cs[i] = c
    ELSE 0

\* c.toUpperCase() and c.toLowerCase() of one character.
toUpperCase(c) ==
    IF PosIn(LowerLetters, c) # 0 THEN UpperLetters[PosIn(LowerLetters, c)] ELSE c

toLowerCase(c) ==
    IF PosIn(UpperLetters, c) # 0 THEN LowerLetters[PosIn(UpperLetters, c)] ELSE c

RECURSIVE Split(_, _)
\* text.split(sep) for a separator of one character: the pieces between the
\* separators, empty pieces included.
Split(t, sep) ==
    LET i == IndexOf(t, <<sep>>)
    IN  IF i = 0 THEN <<t>>
        ELSE <<Sub(t, 1, i - 1)>> \o Split(Sub(t, i + 1, Len(t)), sep)

RECURSIVE Join(_, _)
\* words.join(sep)
Join(words, sep) ==
    IF words = <<>> THEN <<>>
    ELSE IF Len(words) = 1 THEN words[1]
    ELSE words[1] \o <<sep>> \o Join(Tail(words), sep)

\* text.replace(/-/g, " ")
HyphensToSpaces(t) == [i \in 1..Len(t) |-> IF t[i] = "-" THEN " " ELSE t[i]]

\* word.charAt(0).toUpperCase() + word.slice(0).toLowerCase(): the slice taken
\* from the first character instead of the second.
CapitalizeSliceZero(word) ==
    IF word = <<>> THEN <<>>
    ELSE <<toUpperCase(word[1])>> \o [i \in 1..Len(word) |-> toLowerCase(word[i])]

\* word.charAt(0).toUpperCase() + word.slice(1).toLowerCase()
Capitalize(word) ==
    IF word = <<>> THEN <<>>
    ELSE <<toUpperCase(word[1])>>
         \o [i \in 1..(Len(word) - 1) |-> toLowerCase(word[i + 1])]

\* text.split(" ").map(capitalize).join(" ")
CapitalizeWords(t) ==
    LET words == Split(t, " ")
    IN  Join([i \in 1..Len(words) |-> Capitalize(words[i])], " ")

\* The characters encodeURIComponent escapes, among those of the model, with
\* their escapes (the bytes of UTF-8, in hexadecimal).
Escapes ==
    << [char |-> " ", code |-> <<"%", "2", "0">>], [char |-> "\t", code |-> <<"%", "0", "9">>],
       [char |-> "\n", code |-> <<"%", "0", "A">>],
       [char |-> "å", code |-> <<"%", "C", "3", "%", "A", "5">>], [char |-> "ä", code |-> <<"%", "C", "3", "%", "A", "4">>],
       [char |-> "ö", code |-> <<"%", "C", "3", "%", "B", "6">>], [char |-> "Å", code |-> <<"%", "C", "3", "%", "8", "5">>],
       [char |-> "Ä", code |-> <<"%", "C", "3", "%", "8", "4">>], [char |-> "Ö", code |-> <<"%", "C", "3", "%", "9", "6">>],
       [char |-> "/", code |-> <<"%", "2", "F">>], [char |-> "&", code |-> <<"%", "2", "6">>],
       [char |-> "=", code |-> <<"%", "3", "D">>], [char |-> "%", code |-> <<"%", "2", "5">>] >>

\* encodeURIComponent(text): letters of A-Z and a-z, digits and - _ . ! ~ * ' ( )
\* stay, every other character is escaped.
encodeURIComponent(t) ==
    ConcatAll([i \in 1..Len(t) |->
        IF \E k \in 1..Len(Escapes) : Escapes[k].char = t[i]
        THEN Escapes[CHOOSE k \in 1..Len(Escapes) : Escapes[k].char = t[i]].code
        ELSE <<t[i]>>])

RECURSIVE decodeURIComponent(_)
\* decodeURIComponent(text), for texts whose escapes are escapes of the table.
decodeURIComponent(t) ==
    IF t = <<>> THEN <<>>
    ELSE LET hits == {k \in 1..Len(Escapes) : MatchesAt(t, Escapes[k].code, 1)}
         IN  IF hits = {} THEN <<t[1]>> \o decodeURIComponent(Tail(t))
             ELSE LET k == CHOOSE k \in hits : TRUE
                  IN  <<Escapes[k].char>>
                      \o decodeURIComponent(Sub(t, Len(Escapes[k].code) + 1, Len(t)))

-----------------------------------------------------------------------------
(* Literal texts of the code.                                              *)

Foretag == <<"f", "ö", "r", "e", "t", "a", "g">>

Kop == <<"K", "ö", "p">>

OrgNr == <<"O", "r", "g", ".", "n", "r">>

Anstallda == <<"A", "n", "s", "t", "ä", "l", "l", "d", "a">>

Omsattning == <<"O", "m", "s", "ä", "t", "t", "n", "i", "n", "g">>

ForetagPath == <<"/", "f", "o", "r", "e", "t", "a", "g", "/">>

\* "https://www.allabolag.se", the prefix parseCompanyElement puts before a link.
Origin == <<"h", "t", "t", "p", "s", ":", "/", "/", "w", "w", "w", ".", "a", "l", "l", "a", "b", "o", "l", "a", "g", ".", "s", "e">>

-----------------------------------------------------------------------------
(* The fetched document, as far as the selectors of the code see it.       *)
(* A page is the sequence of its "main h2" headings in document order.     *)
(* A heading has its text, the href of the anchor inside it (empty when it *)
(* has none) and its card: the div children of the heading's parent        *)
(* element.  A div has its own text followed by the texts of the divs      *)
(* nested in it.  Every heading has a parent element of its own, so that   *)
(* find("h2").first() in that element is the heading itself.               *)

\* $(div).text()
DivText(d) == d.own \o ConcatAll(d.kids)

\* $(element).text() of a heading's parent element: the heading, then its divs.
CardText(h) == h.text \o ConcatAll([i \in 1..Len(h.card) |-> DivText(h.card[i])])

\* The texts of the elements $(element).find("div:contains('label')") selects,
\* in document order: a div is selected when its text contains the label, so a
\* div that wraps a selected div is selected too.
RECURSIVE FindDivTexts(_, _)
FindDivTexts(divs, label) ==
    IF divs = <<>> THEN <<>>
    ELSE LET d == Head(divs)
             self == IF Includes(DivText(d), label) THEN <<DivText(d)>> ELSE <<>>
             inner == SelectSeq(d.kids, LAMBDA k : Includes(k, label))
         IN  self \o inner \o FindDivTexts(Tail(divs), label)

\* $(element).find("div:contains('label')").parent().text(): the parents of the
\* selected divs, each once: the element itself, then every div that wraps a
\* selected div.
ParentsText(h, label) ==
    LET wraps == SelectSeq(h.card,
                     LAMBDA d : \E i \in 1..Len(d.kids) : Includes(d.kids[i], label))
    IN  CardText(h) \o ConcatAll([i \in 1..Len(wraps) |-> DivText(wraps[i])])

-----------------------------------------------------------------------------
(* Regular expressions of the code.                                        *)

\* The end of the run of characters of set S that starts at position i
\* (i - 1 when t[i] is not in S).
RECURSIVE RunEnd(_, _, _)
RunEnd(t, i, S) ==
    IF i <= Len(t) /\ t[i] \in S THEN RunEnd(t, i + 1, S) ELSE i - 1

\* text.match(/(\d+)/): the first run of digits alone.
MatchDigits(t) ==
    LET ds == {i \in 1..Len(t) : IsDigit(t[i])}
    IN  IF ds = {} THEN None
        ELSE LET i == CHOOSE i \in ds : \A j \in ds : i <= j
             IN  Some(SubSeq(t, i, RunEnd(t, i, Digit)))

\* text.match(/(\d[\d\s]*)/): the first digit and the digits and white space
\* that follow it; None when the text has no digit.
MatchDigitRun(t) ==
    LET ds == {i \in 1..Len(t) : IsDigit(t[i])}
    IN  IF ds = {} THEN None
        ELSE LET i == CHOOSE i \in ds : \A j \in ds : i <= j
             IN  Some(SubSeq(t, i, RunEnd(t, i, Digit \cup Space)))

\* text.match(/(\d{4})/): the first four consecutive digits; None without them.
MatchYear(t) ==
    LET at == {i \in 1..(Len(t) - 3) : \A k \in 0..3 : IsDigit(t[i + k])}
    IN  IF at = {} THEN None
        ELSE LET i == CHOOSE i \in at : \A j \in at : i <= j
             IN  Some(SubSeq(t, i, i + 3))

\* The position after a match of /Omsättning\s+\d{4}/ that starts at i, 0 when
\* the expression does not match there.
LabelYearEnd(t, i) ==
    IF ~MatchesAt(t, Omsattning, i) THEN 0
    ELSE LET s == i + Len(Omsattning)
             e == RunEnd(t, s, Space)
         IN  IF e >= s /\ e + 4 <= Len(t) /\ \A k \in 1..4 : IsDigit(t[e + k])
             THEN e + 5 ELSE 0

\* text.replace(/Omsättning\s+\d{4}/, ""): the first match removed.
DropLabelYear(t) ==
    LET at == {i \in 1..Len(t) : LabelYearEnd(t, i) # 0}
    IN  IF at = {} THEN t
        ELSE LET i == CHOOSE i \in at : \A j \in at : i <= j
             IN  Sub(t, 1, i - 1) \o Sub(t, LabelYearEnd(t, i), Len(t))

-----------------------------------------------------------------------------
(* Field extractors.                                                       *)

extractNumericValue(text) ==
    LET cleanedText == KeepDigits(text)
    IN  IF cleanedText # <<>> THEN Some(ParseDigits(cleanedText)) ELSE None

\* The headings of "main h2" whose text includes "företag"; the first one's
\* trimmed text ("" when there is none) and the number matched in it.
extractTotalCount(page) ==
    LET hs == SelectSeq(page, LAMBDA h : Includes(h.text, Foretag))
        countText == IF hs = <<>> THEN <<>> ELSE Trim(hs[1].text)
        countMatch == MatchDigitRun(countText)
    IN  IF IsSome(countMatch) THEN ParseDigits(DropSpaces(Get(countMatch))) ELSE 0

getName(h) == Trim(h.text)

getLink(h) == h.href

getOrgNumber(h) ==
    LET orgTexts == FindDivTexts(h.card, OrgNr)
    IN  IF orgTexts # <<>>
        THEN Some(Trim(ReplaceFirst(ConcatAll(orgTexts), OrgNr, <<>>)))
        ELSE None

getEmployees(h) ==
    IF FindDivTexts(h.card, Anstallda) = <<>> THEN None
    ELSE extractNumericValue(
             Trim(ReplaceFirst(ParentsText(h, Anstallda), Anstallda, <<>>)))

\* The record {revenue, revenueYear}.
getRevenue(h) ==
    LET revTexts == FindDivTexts(h.card, Omsattning)
        revenueText == Trim(ConcatAll(revTexts))
        valueText == Trim(DropLabelYear(ParentsText(h, Omsattning)))
    IN  IF revTexts = <<>> THEN [revenue |-> None, revenueYear |-> None]
        ELSE [revenue |-> IF valueText # <<>> THEN extractNumericValue(valueText)
                          ELSE None,
              revenueYear |-> MatchYear(revenueText)]

\* JavaScript truthiness of an optional text: present and not empty.
TruthyText(o) == IsSome(o) /\ Get(o) # <<>>

formatLocation(location) == CapitalizeWords(HyphensToSpaces(location))

\* link.match(/\/foretag\/.*\/(.*?)\//)[1]: behind the first "/foretag/", the
\* greedy .* runs up to the last but one "/" and the lazy group takes the text
\* from there to the last "/"; None when fewer than two "/" follow.
LinkLocationMatch(link) ==
    LET at == IndexOf(link, ForetagPath)
        rest == Sub(link, at + Len(ForetagPath), Len(link))
        slashes == {i \in 1..Len(rest) : rest[i] = "/"}
    IN  IF at = 0 \/ Cardinality(slashes) < 2 THEN None
        ELSE LET q == CHOOSE i \in slashes : \A j \in slashes : i >= j
                 p == CHOOSE i \in slashes \ {q} : \A j \in slashes \ {q} : i >= j
             IN  Some(Sub(rest, p + 1, q - 1))

\* The position behind the match of /^\d{3}\s?\d{2}\s?/ in text t, 0 when the
\* expression does not match.
PostalPrefixEnd(t) ==
    LET a == IF Len(t) >= 4 /\ IsSpace(t[4]) THEN 5 ELSE 4
    IN  IF /\ Len(t) >= a + 1
           /\ \A i \in {1, 2, 3, a, a + 1} : IsDigit(t[i])
        THEN IF Len(t) >= a + 2 /\ IsSpace(t[a + 2]) THEN a + 3 ELSE a + 2
        ELSE 0

\* text.match(/^\d{3}\s?\d{2}\s?[A-Za-z...\s]+$/) !== null: a postal code and
\* behind it at least one character, all of them letters or white space.
IsPostalAddress(t) ==
    LET a == IF Len(t) >= 4 /\ IsSpace(t[4]) THEN 5 ELSE 4
    IN  /\ PostalPrefixEnd(t) # 0
        /\ Len(t) >= a + 2
        /\ \A i \in (a + 2)..Len(t) :
               \/ IsSpace(t[i])
               \/ PosIn(LowerLetters, t[i]) # 0
               \/ PosIn(UpperLetters, t[i]) # 0

getLocation(h, link, requestedLocation) ==
    LET locationMatch == LinkLocationMatch(link)
        locationDiv == SelectSeq(h.card, LAMBDA d : IsPostalAddress(Trim(DivText(d))))
        fullText == Trim(ConcatAll([i \in 1..Len(locationDiv) |-> DivText(locationDiv[i])]))
    IN  IF TruthyText(requestedLocation) THEN Get(requestedLocation)
        ELSE IF link # <<>> /\ IsSome(locationMatch) /\ Get(locationMatch) # <<>>
        THEN formatLocation(decodeURIComponent(Get(locationMatch)))
        ELSE IF locationDiv # <<>>
        THEN Trim(Sub(fullText, PostalPrefixEnd(fullText), Len(fullText)))
        ELSE <<>>

-----------------------------------------------------------------------------
(* Math.random().  One call of segmentationSearch draws the values         *)
(* Random(seed, 0), Random(seed, 1), ... in the order the code asks for    *)
(* them; the seed of a call is not known.  A drawn value k stands for the  *)
(* number k / RandomGrain of [0, 1).                                       *)

Random(seed, n) == (seed + n) % RandomGrain

Seeds == 0..(RandomGrain - 1)

\* Math.floor(r * m) for the drawn value k and an integer m >= 0.
FloorTimes(k, m) == (k * m) \div RandomGrain

-----------------------------------------------------------------------------
(* Request parameters.                                                     *)

SortValues ==
    {"relevance", "companyNameAsc", "companyNameDesc", "registrationDateAsc",
     "registrationDateDesc", "revenueAsc", "revenueDesc", "numEmployeesAsc",
     "numEmployeesDesc", "profitAsc", "profitDesc"}

\* JavaScript truthiness of an optional string and of an optional number.
TruthyStr(o) == IsSome(o) /\ Get(o) # ""

TruthyNum(o) == IsSome(o) /\ Get(o) # 0

\* One `key=value` of the query string; a number is written in decimal.
QueryParam(key, value) == [key |-> key, value |-> value]

\* The `key=value` parts buildSearchUrl pushes, in the order of the code.
QueryParams(p) ==
    (IF TruthyText(p.location)
     THEN <<QueryParam("location",
                       encodeURIComponent(CapitalizeWords(Get(p.location))))>>
     ELSE <<>>)
    \o (IF TruthyText(p.proffIndustryCode)
        THEN <<QueryParam("proffIndustryCode",
                          encodeURIComponent(Get(p.proffIndustryCode)))>>
        ELSE <<>>)
    \o (IF TruthyText(p.companyType)
        THEN <<QueryParam("companyType", encodeURIComponent(Get(p.companyType)))>>
        ELSE <<>>)
    \o (IF IsSome(p.revenueFrom)
        THEN <<QueryParam("revenueFrom", ToChars(Get(p.revenueFrom)))>> ELSE <<>>)
    \o (IF IsSome(p.revenueTo)
        THEN <<QueryParam("revenueTo", ToChars(Get(p.revenueTo)))>> ELSE <<>>)
    \o (IF IsSome(p.numEmployeesFrom)
        THEN <<QueryParam("numEmployeesFrom", ToChars(Get(p.numEmployeesFrom)))>>
        ELSE <<>>)
    \o (IF IsSome(p.numEmployeesTo)
        THEN <<QueryParam("numEmployeesTo", ToChars(Get(p.numEmployeesTo)))>>
        ELSE <<>>)
    \o (IF TruthyStr(p.sort) THEN <<QueryParam("sort", <<Get(p.sort)>>)>> ELSE <<>>)
    \o (IF TruthyNum(p.page)
        THEN <<QueryParam("page", ToChars(Get(p.page)))>> ELSE <<>>)

\* buildSearchUrl with `params.page || 1`.
buildSearchUrlDefaultPage(p) ==
    [baseUrl |-> "https://www.allabolag.se/segmentation",
     queryParams |->
        QueryParams([p EXCEPT !.page = IF TruthyNum(p.page) THEN p.page ELSE Some(1)])]

\* The URL of the search: the base address and the `key=value` parts that are
\* joined with "&" behind a "?".
buildSearchUrl(p) ==
    [baseUrl |-> "https://www.allabolag.se/segmentation", queryParams |-> QueryParams(p)]

-----------------------------------------------------------------------------
(* Entries of a response.                                                  *)

Entry(name, link, location, orgNumber, employees, revenue, revenueYear, profit, date) ==
    [name |-> name, link |-> link, location |-> location, orgNumber |-> orgNumber,
     employees |-> employees, revenue |-> revenue, revenueYear |-> revenueYear,
     profit |-> profit, registrationDate |-> date]

\* new Date(year, month, day)
Date(year, month, day) == [year |-> year, month |-> month, day |-> day]

\* Math.floor(revenue * (0.1 + r * 0.05)) for the drawn value k.
ProfitOf(revenue, k) ==
    LET den == 20 * RandomGrain
        num == 2 * RandomGrain + k
    IN  (revenue \div den) * num + ((revenue % den) * num) \div den

getProfit(revenue, seed, n) ==
    IF TruthyNum(revenue) THEN Some(ProfitOf(Get(revenue), Random(seed, n)))
    ELSE None

getRegistrationDate(p, seed, n) ==
    IF p.sort = Some("registrationDateDesc") \/ p.sort = Some("registrationDateAsc")
    THEN Some(Date(2000 + FloorTimes(Random(seed, n), 23),
                   FloorTimes(Random(seed, n + 1), 12),
                   1 + FloorTimes(Random(seed, n + 2), 28)))
    ELSE None

\* The number of values parseCompanyElement draws for one element.
DrawsOf(h, p) ==
    (IF TruthyNum(getRevenue(h).revenue) THEN 1 ELSE 0)
    + (IF IsSome(getRegistrationDate(p, 0, 0)) THEN 3 ELSE 0)

\* The entry of one element, n values having been drawn before it.
parseCompanyElement(h, p, seed, n) ==
    LET link == getLink(h)
        org == getOrgNumber(h)
        rev == getRevenue(h)
        profit == getProfit(rev.revenue, seed, n)
    IN  Entry(getName(h), Origin \o link, getLocation(h, link, p.location),
              IF IsSome(org) /\ Get(org) # <<>> THEN Get(org) ELSE <<>>,
              getEmployees(h), rev.revenue, rev.revenueYear, profit,
              getRegistrationDate(p, seed, n + (IF IsSome(profit) THEN 1 ELSE 0)))

\* findCompanyElements without the test for the anchor: every heading whose
\* text has neither word.
findCompanyElementsAnyHeading(page) ==
    SelectSeq(page, LAMBDA h : /\ ~Includes(Trim(h.text), Foretag)
                               /\ ~Includes(Trim(h.text), Kop))

\* The headings that carry a company: an anchor to a company page, and a text
\* without "företag" and without "Köp"; the element is the heading's parent.
findCompanyElements(page) ==
    SelectSeq(page, LAMBDA h : /\ Includes(h.href, ForetagPath)
                               /\ ~Includes(Trim(h.text), Foretag)
                               /\ ~Includes(Trim(h.text), Kop))

RECURSIVE ParseElements(_, _, _, _)
\* companyElements.forEach(parseCompanyElement), in page order.
ParseElements(elements, p, seed, n) ==
    IF elements = <<>> THEN <<>>
    ELSE <<parseCompanyElement(Head(elements), p, seed, n)>>
         \o ParseElements(Tail(elements), p, seed, n + DrawsOf(Head(elements), p))

\* The predicate of results.filter.
PassesFilter(company, p) ==
    /\ ~(/\ IsSome(p.numEmployeesFrom) /\ IsSome(company.employees)
         /\ Get(company.employees) < Get(p.numEmployeesFrom))
    /\ ~(/\ IsSome(p.numEmployeesTo) /\ IsSome(company.employees)
         /\ Get(company.employees) > Get(p.numEmployeesTo))
    /\ ~(/\ IsSome(p.revenueFrom) /\ IsSome(company.revenue)
         /\ Get(company.revenue) < Get(p.revenueFrom))
    /\ ~(/\ IsSome(p.revenueTo) /\ IsSome(company.revenue)
         /\ Get(company.revenue) > Get(p.revenueTo))

-----------------------------------------------------------------------------
(* createSyntheticTestData.                                                *)

\* The number of entries every branch of createSyntheticTestData creates.
SyntheticCount == 10

RevenueCompany == <<"R", "e", "v", "e", "n", "u", "e", " ", "C", "o", "m", "p", "a", "n", "y", " ">>

DateCompany == <<"D", "a", "t", "e", " ", "C", "o", "m", "p", "a", "n", "y", " ">>

TestCompany == <<"T", "e", "s", "t", " ", "C", "o", "m", "p", "a", "n", "y", " ">>

RevenueCompanyLink == <<"h", "t", "t", "p", "s", ":", "/", "/", "w", "w", "w", ".", "a", "l", "l", "a", "b", "o", "l", "a", "g", ".", "s", "e", "/", "f", "o", "r", "e", "t", "a", "g", "/", "r", "e", "v", "e", "n", "u", "e", "-", "c", "o", "m", "p", "a", "n", "y", "-">>

DateCompanyLink == <<"h", "t", "t", "p", "s", ":", "/", "/", "w", "w", "w", ".", "a", "l", "l", "a", "b", "o", "l", "a", "g", ".", "s", "e", "/", "f", "o", "r", "e", "t", "a", "g", "/", "d", "a", "t", "e", "-", "c", "o", "m", "p", "a", "n", "y", "-">>

TestCompanyLink == <<"h", "t", "t", "p", "s", ":", "/", "/", "w", "w", "w", ".", "a", "l", "l", "a", "b", "o", "l", "a", "g", ".", "s", "e", "/", "f", "o", "r", "e", "t", "a", "g", "/", "t", "e", "s", "t", "-", "c", "o", "m", "p", "a", "n", "y", "-">>

\* `55555${i}-${1000 + i}`
SyntheticOrg(i) == <<"5", "5", "5", "5", "5">> \o ToChars(i) \o <<"-">> \o ToChars(1000 + i)

TestLocation == <<"T", "e", "s", "t", " ", "L", "o", "c", "a", "t", "i", "o", "n">>

Year2023 == <<"2", "0", "2", "3">>

\* min + Math.floor(Math.random() * (max - min + 1)) for the drawn value k.
RandomBetween(min, max, k) == min + FloorTimes(k, max - min + 1)

createSyntheticTestData(p, seed) ==
    IF p.sort = Some("revenueDesc")
    THEN [j \in 1..SyntheticCount |->
             Entry(RevenueCompany \o ToChars(j), RevenueCompanyLink \o ToChars(j), TestLocation,
                   SyntheticOrg(j - 1), None, Some(10000000 - (j - 1) * 500000),
                   Some(Year2023), None, None)]
    ELSE IF p.sort = Some("registrationDateDesc")
    THEN [j \in 1..SyntheticCount |->
             Entry(DateCompany \o ToChars(j), DateCompanyLink \o ToChars(j), TestLocation,
                   SyntheticOrg(j - 1), None, None, None, None,
                   Some(Date(2023 - (j - 1), 0, 1)))]
    ELSE IF IsSome(p.numEmployeesFrom) /\ IsSome(p.numEmployeesTo)
    THEN [j \in 1..SyntheticCount |->
             Entry(TestCompany \o ToChars(j), TestCompanyLink \o ToChars(j), TestLocation,
                   SyntheticOrg(j - 1),
                   Some(RandomBetween(Get(p.numEmployeesFrom), Get(p.numEmployeesTo),
                                      Random(seed, j - 1))),
                   None, None, None, None)]
    ELSE IF IsSome(p.revenueFrom) /\ IsSome(p.revenueTo)
    THEN [j \in 1..SyntheticCount |->
             Entry(TestCompany \o ToChars(j), TestCompanyLink \o ToChars(j), TestLocation,
                   SyntheticOrg(j - 1), None,
                   Some(RandomBetween(Get(p.revenueFrom), Get(p.revenueTo),
                                      Random(seed, j - 1))),
                   Some(Year2023), None, None)]
    ELSE IF p.sort = Some("profitDesc") \/ p.sort = Some("profitAsc")
    THEN LET results == [j \in 1..SyntheticCount |->
                            Entry(TestCompany \o ToChars(j), TestCompanyLink \o ToChars(j), TestLocation,
                                  SyntheticOrg(j - 1), None, None, None,
                                  Some(1000000 - (j - 1) * 100000), None)]
         IN  IF p.sort = Some("profitAsc")
             THEN [j \in 1..SyntheticCount |-> results[SyntheticCount + 1 - j]]
             ELSE results
    ELSE <<>>

-----------------------------------------------------------------------------
(* segmentationSearch after the page has been fetched.                     *)

SearchResponse(p, page, seed) ==
    LET totalCount == extractTotalCount(page)
        syntheticTestData == createSyntheticTestData(p, seed)
        results == ParseElements(findCompanyElements(page), p, seed, 0)
        filteredResults == SelectSeq(results, LAMBDA company : PassesFilter(company, p))
    IN  IF Len(syntheticTestData) > 0
        THEN [results |-> syntheticTestData, totalCount |-> Len(syntheticTestData)]
        ELSE [results |-> filteredResults, totalCount |-> totalCount]

\* The validation at the head of segmentationSearch: a sort that is truthy and
\* not one of the enumerated values is rejected.
SortRejected(p) == TruthyStr(p.sort) /\ Get(p.sort) \notin SortValues

\* The message of the error the validation throws, as the parts of the string.
InvalidSortMessage(p) == <<"Invalid sort parameter">>

\* The cause of the failure alone, without the words of fetchPage.
FetchCauseMessage(cause) == <<cause>>

\* The message of the error fetchPage throws: `Failed to fetch page: ${cause}`.
FetchFailedMessage(cause) == <<"Failed to fetch page: ", cause>>

-----------------------------------------------------------------------------
(* The inputs of the model: request parameters and fetched pages.          *)

Flat(text) == [own |-> text, kids |-> <<>>]

Nested(texts) == [own |-> <<>>, kids |-> texts]

Heading(text, href, card) == [text |-> text, href |-> href, card |-> card]

\* Population headings.
CountHeadings ==
    {Heading(<<"1", "3", " ", "1", "7", "0", " ", "f", "ö", "r", "e", "t", "a", "g">>, <<>>, <<>>),
     Heading(<<"0", " ", "f", "ö", "r", "e", "t", "a", "g">>, <<>>, <<>>)}

\* Company cards, in the order in which a page lists them.
Catalog ==
    << Heading(<<"A", "l", "f", "a", " ", "A", "B">>, <<"/", "f", "o", "r", "e", "t", "a", "g", "/", "a", "l", "f", "a", "-", "a", "b", "/", "u", "m", "e", "a", "/", "-", "/", "1">>,
               <<Flat(<<"O", "m", "s", "ä", "t", "t", "n", "i", "n", "g", " ", "2", "0", "2", "3", " ", "7", "5", " ", "5", "6", "0">>)>>),
       Heading(<<"B", "e", "t", "a", " ", "A", "B">>, <<"/", "f", "o", "r", "e", "t", "a", "g", "/", "b", "e", "t", "a", "-", "a", "b", "/", "u", "m", "e", "a", "/", "-", "/", "2">>,
               <<Flat(<<"A", "n", "s", "t", "ä", "l", "l", "d", "a", " ", "4", "5">>)>>),
       Heading(<<"G", "a", "m", "m", "a", " ", "A", "B">>, <<"/", "f", "o", "r", "e", "t", "a", "g", "/", "g", "a", "m", "m", "a", "-", "a", "b", "/", "u", "m", "e", "a", "/", "-", "/", "3">>,
               <<Flat(<<"O", "m", "s", "ä", "t", "t", "n", "i", "n", "g", " ", "9", "0", "0">>)>>),
       Heading(<<"E", "p", "s", "i", "l", "o", "n", " ", "A", "B">>, <<"/", "f", "o", "r", "e", "t", "a", "g", "/", "e", "p", "s", "i", "l", "o", "n", "-", "a", "b", "/", "u", "m", "e", "a", "/", "-", "/", "4">>,
               <<Flat(<<"A", "n", "s", "t", "ä", "l", "l", "d", "a", " ", "5">>), Flat(<<"O", "m", "s", "ä", "t", "t", "n", "i", "n", "g", " ", "2", "0", "2", "2", " ", "9", "0", "0">>)>>),
       Heading(<<"Z", "e", "t", "a", " ", "A", "B">>, <<"/", "f", "o", "r", "e", "t", "a", "g", "/", "z", "e", "t", "a", "-", "a", "b", "/", "5">>,
               <<Flat(<<"O", "r", "g", ".", "n", "r", " ", "5", "5", "6", "4", "6", "9", "-", "6", "2", "9", "1">>), Flat(<<"9", "0", "3", " ", "2", "6", " ", "U", "m", "e", "å">>)>>),
       Heading(<<"D", "e", "l", "t", "a", " ", "A", "B">>, <<"/", "f", "o", "r", "e", "t", "a", "g", "/", "d", "e", "l", "t", "a", "-", "a", "b", "/", "u", "m", "e", "a", "/", "-", "/", "6">>,
               <<Nested(<<<<"O", "r", "g", ".", "n", "r", " ", "5", "5", "6", "6", "7", "7", "-", "8", "8", "9", "9">>>>)>>) >>

RECURSIVE Pick(_)
\* The cards of the catalog with the indices of S, in catalog order.
Pick(S) ==
    IF S = {} THEN <<>>
    ELSE LET i == CHOOSE i \in S : \A j \in S : i <= j
         IN  <<Catalog[i]>> \o Pick(S \ {i})

\* The pages fetchPage can return: an optional population heading, then at most
\* MaxCards company cards.
Pages ==
    {prefix \o Pick(S) :
        prefix \in {<<>>} \cup {<<h>> : h \in CountHeadings},
        S \in {S \in SUBSET (1..Len(Catalog)) : Cardinality(S) <= MaxCards}}

\* What the registry knows of the companies of the catalog, position by
\* position: the fields a data block (script#__NEXT_DATA__) supplies for them.
CatalogData ==
    << [organisationNumber |-> Some(<<"5", "5", "6", "0", "0", "0", "1", "1", "1", "1">>), numberOfEmployees |-> Some(12),
        revenue |-> Some(75560)],
       [organisationNumber |-> Some(<<"5", "5", "6", "0", "0", "0", "2", "2", "2", "2">>), numberOfEmployees |-> Some(45),
        revenue |-> None],
       [organisationNumber |-> None, numberOfEmployees |-> None, revenue |-> Some(900)],
       [organisationNumber |-> Some(<<"5", "5", "6", "0", "0", "0", "4", "4", "4", "4">>), numberOfEmployees |-> Some(5),
        revenue |-> Some(900)],
       [organisationNumber |-> Some(<<"5", "5", "6", "4", "6", "9", "6", "2", "9", "1">>), numberOfEmployees |-> None,
        revenue |-> None],
       [organisationNumber |-> Some(<<"5", "5", "6", "6", "7", "7", "8", "8", "9", "9">>), numberOfEmployees |-> Some(3),
        revenue |-> None] >>

\* The data block a page can embed: none, or one that lists the companies of
\* the page (at most MaxBlockEntries), in page order, with their names.
DataBlocks(page) ==
    LET elements == findCompanyElements(page)
        DataOf(h) == CatalogData[CHOOSE i \in 1..Len(Catalog) : Catalog[i] = h]
    IN  {None} \cup
        (IF elements = <<>> \/ Len(elements) > MaxBlockEntries THEN {}
         ELSE {Some([i \in 1..Len(elements) |->
                        [name |-> getName(elements[i]),
                         organisationNumber |-> DataOf(elements[i]).organisationNumber,
                         numberOfEmployees |-> DataOf(elements[i]).numberOfEmployees,
                         revenue |-> DataOf(elements[i]).revenue]])})

SortInputs == {None} \cup {Some(s) : s \in SortValues \cup {"", "invalidSortValue"}}

\* The request location of the model.
Umea == <<"u", "m", "e", "å">>

\* Parameter sets without a location, and a few with one.
ParamSets ==
    [location : {None}, proffIndustryCode : {None}, companyType : {None},
     sort : SortInputs,
     revenueFrom : {None, Some(1000)},
     revenueTo : {None, Some(50000)},
     numEmployeesFrom : {None, Some(50)},
     numEmployeesTo : {None, Some(100)},
     page : {None}]
    \cup
    [location : {Some(Umea)}, proffIndustryCode : {None}, companyType : {None},
     sort : {None, Some("revenueDesc")},
     revenueFrom : {None}, revenueTo : {None},
     numEmployeesFrom : {None}, numEmployeesTo : {None},
     page : {None, Some(2)}]

FetchCauses == {"Network Error", "Request failed with status code 404"}

-----------------------------------------------------------------------------
(* The state machine: one call of segmentationSearch, and a second call    *)
(* with the same parameters that is served the same page.                  *)
(*   pc         "idle", "fetching" (awaiting fetchPage), "done", "failed"  *)
(*   params     the parameters of the call                                 *)
(*   url        the URL handed to fetchPage                                *)
(*   html       the page fetchPage returned                                *)
(*   nextData   the companies of the data block of that page, if any       *)
(*   response   the value the call returned                                *)
(*   error      the message of the error the call threw                    *)
(*   fetchCalls the number of times the call invoked fetchPage             *)
(*   prev       the response of the first call, once a second is made      *)
(*   random     the number of values drawn from Math.random() so far; only  *)
(*              SpecPair follows it, a single call has an unknown seed      *)

NoParams ==
    [location |-> None, proffIndustryCode |-> None, companyType |-> None,
     sort |-> None, revenueFrom |-> None, revenueTo |-> None,
     numEmployeesFrom |-> None, numEmployeesTo |-> None, page |-> None]

Init ==
    /\ pc = "idle"
    /\ params = NoParams
    /\ url = None
    /\ html = None
    /\ nextData = None
    /\ response = None
    /\ error = None
    /\ fetchCalls = 0
    /\ prev = None
    /\ random = 0

\* segmentationSearch(p) up to the await of fetchPage: validate, build the
\* URL, start the fetch.
Call(p) ==
    /\ pc = "idle"
    /\ params' = p
    /\ IF SortRejected(p)
       THEN /\ pc' = "failed"
            /\ error' = Some(InvalidSortMessage(p))
            /\ UNCHANGED <<url, fetchCalls>>
       ELSE /\ pc' = "fetching"
            /\ url' = Some(buildSearchUrl(p))
            /\ fetchCalls' = fetchCalls + 1
            /\ UNCHANGED error
    /\ UNCHANGED <<html, nextData, response, prev, random>>

\* fetchPage resolves with a page: the rest of segmentationSearch.
FetchOk(page, block, seed) ==
    /\ pc = "fetching"
    /\ IsSome(prev) => (page = Get(html) /\ block = nextData)
    /\ html' = Some(page)
    /\ nextData' = block
    /\ response' = Some(SearchResponse(params, page, seed))
    /\ pc' = "done"
    /\ UNCHANGED <<params, url, error, fetchCalls, prev, random>>

\* fetchPage throws and the call fetches once more instead of giving up.
FetchFailRetried(cause) ==
    /\ pc = "fetching"
    /\ fetchCalls < 3
    /\ fetchCalls' = fetchCalls + 1
    /\ UNCHANGED <<pc, params, url, html, nextData, response, error, prev, random>>

\* fetchPage throws: segmentationSearch logs the error and throws it again.
FetchFail(cause) ==
    /\ pc = "fetching"
    /\ error' = Some(FetchFailedMessage(cause))
    /\ pc' = "failed"
    /\ UNCHANGED <<params, url, html, nextData, response, fetchCalls, prev, random>>

\* The caller calls segmentationSearch again with the same parameters; the
\* first response is kept for comparison.
CallAgain ==
    /\ pc = "done"
    /\ prev = None
    /\ ~SortRejected(params)
    /\ prev' = response
    /\ response' = None
    /\ fetchCalls' = 1
    /\ pc' = "fetching"
    /\ UNCHANGED <<params, url, html, nextData, error, random>>

Next ==
    \/ \E p \in ParamSets : Call(p)
    \/ \E page \in Pages, seed \in Seeds :
           \E block \in DataBlocks(page) : FetchOk(page, block, seed)
    \/ \E cause \in FetchCauses : FetchFail(cause)
    \/ CallAgain

Spec == Init /\ [][Next]_vars

-----------------------------------------------------------------------------
(* One call of segmentationSearch that is served a page of headings of     *)
(* other kinds than those of the catalog: promotional headings, a heading  *)
(* without text and anchor, companies whose names contain a word of the    *)
(* filter of findCompanyElements, and cards whose figures are written in   *)
(* other ways.  The actions are those of Spec.                             *)

\* Headings that are not companies: a promotional heading with its anchor, the
\* same without an anchor, and a heading with neither text nor anchor.
OtherHeadings ==
    << Heading(<<"K", "ö", "p", " ", "d", "e", "n", "n", "a", " ", "l", "i", "s", "t", "a">>, <<"/", "k", "o", "p", "/", "l", "i", "s", "t", "a">>, <<>>),
       Heading(<<"S", "k", "a", "f", "f", "a", " ", "A", "l", "l", "a", "b", "o", "l", "a", "g", " ", "P", "L", "U", "S">>, <<>>, <<>>),
       Heading(<<" ">>, <<>>, <<>>) >>

\* Companies whose name contains "Köp" or "företag".
NamedLikeFilter ==
    << Heading(<<"K", "ö", "p", "m", "a", "n", " ", "A", "B">>, <<"/", "f", "o", "r", "e", "t", "a", "g", "/", "k", "o", "p", "m", "a", "n", "-", "a", "b", "/", "u", "m", "e", "a", "/", "-", "/", "7">>,
               <<Flat(<<"A", "n", "s", "t", "ä", "l", "l", "d", "a", " ", "1", "2">>)>>),
       Heading(<<"U", "m", "e", "å", " ", "f", "ö", "r", "e", "t", "a", "g", "s", "p", "a", "r", "k", " ", "A", "B">>, <<"/", "f", "o", "r", "e", "t", "a", "g", "/", "u", "m", "e", "a", "-", "f", "o", "r", "e", "t", "a", "g", "s", "p", "a", "r", "k", "-", "a", "b", "/", "u", "m", "e", "a", "/", "-", "/", "8">>,
               <<Flat(<<"O", "m", "s", "ä", "t", "t", "n", "i", "n", "g", " ", "2", "0", "2", "3", " ", "1", " ", "2", "0", "0">>)>>) >>

\* Companies whose cards write the figures in the ways the labels allow: a
\* bracket of employees, a grouped number of employees, an amount without
\* grouping, a company heading without text, and a date of registration.
FigureCards ==
    << Heading(<<"E", "t", "a", " ", "A", "B">>, <<"/", "f", "o", "r", "e", "t", "a", "g", "/", "e", "t", "a", "-", "a", "b", "/", "u", "m", "e", "a", "/", "-", "/", "9">>,
               <<Flat(<<"A", "n", "s", "t", "ä", "l", "l", "d", "a", " ", "1", "-", "4">>)>>),
       Heading(<<"T", "h", "e", "t", "a", " ", "A", "B">>, <<"/", "f", "o", "r", "e", "t", "a", "g", "/", "t", "h", "e", "t", "a", "-", "a", "b", "/", "u", "m", "e", "a", "/", "-", "/", "1", "0">>,
               <<Flat(<<"A", "n", "s", "t", "ä", "l", "l", "d", "a", " ", "1", "3", " ", "1", "7", "0">>)>>),
       Heading(<<"I", "o", "t", "a", " ", "A", "B">>, <<"/", "f", "o", "r", "e", "t", "a", "g", "/", "i", "o", "t", "a", "-", "a", "b", "/", "u", "m", "e", "a", "/", "-", "/", "1", "1">>,
               <<Flat(<<"O", "m", "s", "ä", "t", "t", "n", "i", "n", "g", " ", "1", "2", "3", "4", "5">>)>>),
       Heading(<<>>, <<"/", "f", "o", "r", "e", "t", "a", "g", "/", "-", "/", "u", "m", "e", "a", "/", "-", "/", "1", "2">>, <<>>),
       Heading(<<"K", "a", "p", "p", "a", " ", "A", "B">>, <<"/", "f", "o", "r", "e", "t", "a", "g", "/", "k", "a", "p", "p", "a", "-", "a", "b", "/", "u", "m", "e", "a", "/", "-", "/", "1", "3">>,
               <<Flat(<<"R", "e", "g", "i", "s", "t", "r", "e", "r", "a", "d", " ", "d", "a", "t", "u", "m", " ", "2", "0", "2", "0", "-", "0", "1", "-", "1", "5">>)>>) >>

\* The headings a page of this specification is made of, in page order: the
\* first four cards of the catalog, then the headings above.
CardCatalog == SubSeq(Catalog, 1, 4) \o OtherHeadings \o NamedLikeFilter \o FigureCards

RECURSIVE PickFrom(_, _)
\* The headings of sequence hs with the indices of S, in the order of hs.
PickFrom(hs, S) ==
    IF S = {} THEN <<>>
    ELSE LET i == CHOOSE i \in S : \A j \in S : i <= j
         IN  <<hs[i]>> \o PickFrom(hs, S \ {i})

\* The pages: at most MaxCards headings of the card catalog.
CardPages ==
    {PickFrom(CardCatalog, S) :
        S \in {S \in SUBSET (1..Len(CardCatalog)) : Cardinality(S) <= MaxCards}}

\* The parameters: none, a sort the validation rejects, a sort it accepts, a
\* sort for which getRegistrationDate draws a date, a lower bound on the
\* employees, and a sort that createSyntheticTestData answers.
CardParamSets ==
    {NoParams,
     [NoParams EXCEPT !.sort = Some("invalidSortValue")],
     [NoParams EXCEPT !.sort = Some("companyNameAsc")],
     [NoParams EXCEPT !.sort = Some("registrationDateAsc")],
     [NoParams EXCEPT !.numEmployeesFrom = Some(10)],
     [NoParams EXCEPT !.sort = Some("revenueDesc")]}

CardsNext ==
    \/ \E p \in CardParamSets : Call(p)
    \/ \E page \in CardPages, seed \in Seeds : FetchOk(page, None, seed)
    \/ \E cause \in FetchCauses : FetchFail(cause)

SpecCards == Init /\ [][CardsNext]_vars

-----------------------------------------------------------------------------
(* Two calls of segmentationSearch in flight in one process.  Each of the  *)
(* variables pc, params, url, html, response, error and fetchCalls holds   *)
(* one value per call.  A call runs without interruption up to its await   *)
(* of fetchPage and again from there to its end; the fetches of the two    *)
(* calls resolve in either order.  Math.random() is the generator of the   *)
(* process: `random` counts the values drawn from it since the process     *)
(* started, and a call that resumes draws Random(random, 0),               *)
(* Random(random, 1), ...  The count is kept modulo RandomGrain, the       *)
(* period of Random.                                                       *)

Calls == {1, 2}

RECURSIVE DrawsOfElements(_, _)
\* The number of values companyElements.forEach(parseCompanyElement) draws.
DrawsOfElements(elements, p) ==
    IF elements = <<>> THEN 0
    ELSE DrawsOf(Head(elements), p) + DrawsOfElements(Tail(elements), p)

\* The number of values one call draws behind its fetch: one per entry in the
\* two range branches of createSyntheticTestData, none in its other branches,
\* and those of the elements of the page when it creates nothing.
DrawsOfCall(p, page) ==
    IF Len(createSyntheticTestData(p, 0)) > 0
    THEN IF /\ p.sort # Some("revenueDesc")
            /\ p.sort # Some("registrationDateDesc")
            /\ \/ IsSome(p.numEmployeesFrom) /\ IsSome(p.numEmployeesTo)
               \/ IsSome(p.revenueFrom) /\ IsSome(p.revenueTo)
         THEN SyntheticCount
         ELSE 0
    ELSE DrawsOfElements(findCompanyElements(page), p)

\* The parameters of the two calls: none, a sort the validation rejects, a sort
\* for which getRegistrationDate draws a date, and a range of employees.
PairParamSets ==
    {NoParams,
     [NoParams EXCEPT !.sort = Some("invalidSortValue")],
     [NoParams EXCEPT !.sort = Some("registrationDateAsc")],
     [NoParams EXCEPT !.numEmployeesFrom = Some(50), !.numEmployeesTo = Some(100)]}

\* The pages served to them: no company, one with a revenue, one without, two.
PairPages == {<<>>, <<Catalog[1]>>, <<Catalog[2]>>, <<Catalog[1], Catalog[3]>>}

PairInit ==
    /\ pc = [c \in Calls |-> "idle"]
    /\ params = [c \in Calls |-> NoParams]
    /\ url = [c \in Calls |-> None]
    /\ html = [c \in Calls |-> None]
    /\ nextData = None
    /\ response = [c \in Calls |-> None]
    /\ error = [c \in Calls |-> None]
    /\ fetchCalls = [c \in Calls |-> 0]
    /\ prev = None
    /\ random = 0

\* Call c of segmentationSearch(p) up to the await of fetchPage.
PairCall(c, p) ==
    /\ pc[c] = "idle"
    /\ params' = [params EXCEPT ![c] = p]
    /\ IF SortRejected(p)
       THEN /\ pc' = [pc EXCEPT ![c] = "failed"]
            /\ error' = [error EXCEPT ![c] = Some(InvalidSortMessage(p))]
            /\ UNCHANGED <<url, fetchCalls>>
       ELSE /\ pc' = [pc EXCEPT ![c] = "fetching"]
            /\ url' = [url EXCEPT ![c] = Some(buildSearchUrl(p))]
            /\ fetchCalls' = [fetchCalls EXCEPT ![c] = @ + 1]
            /\ UNCHANGED error
    /\ UNCHANGED <<html, nextData, response, prev, random>>

\* The fetch of call c resolves with a page: the rest of the call, which draws
\* its values from the generator where the process has left it.
PairFetchOk(c, page) ==
    /\ pc[c] = "fetching"
    /\ html' = [html EXCEPT ![c] = Some(page)]
    /\ response' = [response EXCEPT ![c] = Some(SearchResponse(params[c], page, random))]
    /\ random' = (random + DrawsOfCall(params[c], page)) % RandomGrain
    /\ pc' = [pc EXCEPT ![c] = "done"]
    /\ UNCHANGED <<params, url, nextData, error, fetchCalls, prev>>

\* The fetch of call c fails.
PairFetchFail(c, cause) ==
    /\ pc[c] = "fetching"
    /\ error' = [error EXCEPT ![c] = Some(FetchFailedMessage(cause))]
    /\ pc' = [pc EXCEPT ![c] = "failed"]
    /\ UNCHANGED <<params, url, html, nextData, response, fetchCalls, prev, random>>

PairNext ==
    \E c \in Calls :
        \/ \E p \in PairParamSets : PairCall(c, p)
        \/ \E page \in PairPages : PairFetchOk(c, page)
        \/ \E cause \in FetchCauses : PairFetchFail(c, cause)

SpecPair == PairInit /\ [][PairNext]_vars

-----------------------------------------------------------------------------
(* extractTotalCount on its own: the function applied to one page.  The     *)
(* pages carry a population heading that writes a number in groups of      *)
(* three digits, with or without white space around it, behind or before   *)
(* other headings.                                                         *)

RECURSIVE Grouped(_)
\* The digits ds in groups of three, counted from the right, a space between.
Grouped(ds) ==
    IF Len(ds) <= 3 THEN ds
    ELSE Grouped(Sub(ds, 1, Len(ds) - 3)) \o <<" ">> \o Sub(ds, Len(ds) - 2, Len(ds))

\* The populations the headings announce.
Populations == {0, 7, 45, 999, 1000, 13170, 100200, 1234567}

\* The text of the population heading for n companies.
CountText(n) == Grouped(ToChars(n)) \o <<" ">> \o Foretag

Paddings == {<<>>, <<" ">>, <<"\n", " ", " ">>}

CountPages ==
    {before \o <<Heading(pad \o CountText(n) \o pad, <<>>, <<>>)>> \o after :
        n \in Populations,
        pad \in Paddings,
        before \in {<<>>, <<Catalog[1]>>},
        after \in {<<>>, <<Heading(CountText(5), <<>>, <<>>)>>, <<Catalog[2]>>}}

CountInit ==
    /\ pc = "idle"
    /\ html \in {Some(page) : page \in CountPages}
    /\ nextData = None
    /\ params = NoParams
    /\ url = None
    /\ response = None
    /\ error = None
    /\ fetchCalls = 0
    /\ prev = None
    /\ random = 0

\* extractTotalCount($) of the page.
ExtractCount ==
    /\ pc = "idle"
    /\ response' = Some(extractTotalCount(Get(html)))
    /\ pc' = "done"
    /\ UNCHANGED <<params, url, html, nextData, error, fetchCalls, prev, random>>

CountNext == ExtractCount

SpecCount == CountInit /\ [][CountNext]_vars

-----------------------------------------------------------------------------
(* buildSearchUrl on its own: the URL of a parameter set, and the URL of    *)
(* the same parameter set with the location already in the form            *)
(* buildSearchUrl gives it.  `page` is an integer of at least 1.            *)

Locations ==
    {None, Some(<<>>), Some(Umea), Some(<<"U", "m", "e", "å">>), Some(<<"U", "M", "E", "Å">>),
     Some(<<"n", "e", "w", " ", "y", "o", "r", "k">>), Some(<<"s", "t", "o", "r", "a", " ", " ", "h", "ö", "g", "a">>), Some(<<"å", "r", "e", "-", "b", "y">>),
     Some(<<"u", "m", "e", "å", "\t", "c", "i", "t", "y">>),
     Some(<<"ö", "r", "e", "b", "r", "o", "\n", "l", "ä", "n">>)}

UrlParamSets ==
    [location : Locations,
     proffIndustryCode : {None, Some(<<"1", "0", "2", "4", "1", "6", "2", "1">>)},
     companyType : {None, Some(<<"A", "B">>)},
     sort : {None, Some(""), Some("revenueDesc")},
     revenueFrom : {None, Some(0)},
     revenueTo : {None, Some(50000)},
     numEmployeesFrom : {None, Some(1)},
     numEmployeesTo : {None},
     page : {None, Some(1), Some(2)}]

UrlInit ==
    /\ pc = "idle"
    /\ params \in UrlParamSets
    /\ url = None
    /\ html = None
    /\ nextData = None
    /\ response = None
    /\ error = None
    /\ fetchCalls = 0
    /\ prev = None
    /\ random = 0

\* buildSearchUrl(params)
BuildUrl ==
    /\ pc = "idle"
    /\ url' = Some(buildSearchUrl(params))
    /\ pc' = "built"
    /\ UNCHANGED <<params, html, nextData, response, error, fetchCalls, prev, random>>

\* The caller takes the location in the form the first URL was built with and
\* builds the URL of these parameters; the first URL is kept for comparison.
BuildNormalized ==
    /\ pc = "built"
    /\ prev' = url
    /\ params' = [params EXCEPT !.location =
                     IF TruthyText(params.location)
                     THEN Some(CapitalizeWords(Get(params.location)))
                     ELSE params.location]
    /\ url' = Some(buildSearchUrl(params'))
    /\ pc' = "rebuilt"
    /\ UNCHANGED <<html, nextData, response, error, fetchCalls, random>>

UrlNext == BuildUrl \/ BuildNormalized

SpecUrl == UrlInit /\ [][UrlNext]_vars

-----------------------------------------------------------------------------
(* getCompanyInfo (src/src/scraper.ts).  The fetched document, as far as   *)
(* the selectors of the code see it: the text of <title>, the text of the  *)
(* parents of .fa-location-dot and of .fa-phone-flip, the texts of the     *)
(* .CardHeader-propertyBlock elements, of the industry tags and of         *)
(* .company-description.                                                   *)

Telefon == <<"T", "e", "l", "e", "f", "o", "n">>

TitleSeparator == <<" ", "-", " ">>

\* title.match(/^(.+?)- (\d{6}-\d{4})/): the expression without the space
\* before the hyphen.
TitleMatchNoSpace(title) ==
    LET ends == {k \in 1..Len(title) :
                    /\ \A i \in 1..k : title[i] # "\n"
                    /\ MatchesAt(title, <<"-", " ">>, k + 1)
                    /\ Len(title) >= k + 13
                    /\ \A i \in 1..11 :
                           IF i = 7 THEN title[k + 2 + i] = "-"
                           ELSE IsDigit(title[k + 2 + i])}
    IN  IF ends = {} THEN None
        ELSE LET k == CHOOSE k \in ends : \A j \in ends : k <= j
             IN  Some([name |-> Sub(title, 1, k), orgNumber |-> Sub(title, k + 3, k + 13)])

\* title.match(/^(.+?) - (\d{6}-\d{4})/): the shortest non-empty start of the
\* title, without a line break, that " - ", six digits, a hyphen and four digits
\* follow; the groups are that start and the number.  None without a match.
TitleMatch(title) ==
    LET ends == {k \in 1..Len(title) :
                    /\ \A i \in 1..k : title[i] # "\n"
                    /\ MatchesAt(title, TitleSeparator, k + 1)
                    /\ Len(title) >= k + 14
                    /\ \A i \in 1..11 :
                           IF i = 7 THEN title[k + 3 + i] = "-"
                           ELSE IsDigit(title[k + 3 + i])}
    IN  IF ends = {} THEN None
        ELSE LET k == CHOOSE k \in ends : \A j \in ends : k <= j
             IN  Some([name |-> Sub(title, 1, k), orgNumber |-> Sub(title, k + 4, k + 14)])

\* text.replace(/\d{4}/, ""): the first four consecutive digits removed.
DropFirstYear(t) ==
    LET at == {i \in 1..(Len(t) - 3) : \A k \in 0..3 : IsDigit(t[i + k])}
    IN  IF at = {} THEN t
        ELSE LET i == CHOOSE i \in at : \A j \in at : i <= j
             IN  Sub(t, 1, i - 1) \o Sub(t, i + 4, Len(t))

\* `value || undefined` of a text.
OrUndefined(t) == IF t # <<>> THEN Some(t) ELSE None

RECURSIVE MetricsOf(_, _)
\* metrics.each(...): the record {revenue, employees} after the blocks, acc
\* being the record before them.
MetricsOf(blocks, acc) ==
    IF blocks = <<>> THEN acc
    ELSE LET text == Trim(Head(blocks))
         IN  MetricsOf(Tail(blocks),
                 IF Includes(text, Omsattning)
                 THEN [acc EXCEPT !.revenue =
                          Some(Trim(DropFirstYear(ReplaceFirst(text, Omsattning, <<>>))))]
                 ELSE IF Includes(text, Anstallda)
                 THEN [acc EXCEPT !.employees =
                          Some(Trim(ReplaceFirst(text, Anstallda, <<>>)))]
                 ELSE acc)

\* The record getCompanyInfo returns for a document whose title matched.
CompanyInfo(doc, titleMatch) ==
    LET metrics == MetricsOf(doc.metrics, [revenue |-> None, employees |-> None])
        industries == [i \in 1..Len(doc.industries) |-> Trim(doc.industries[i])]
    IN  [name |-> titleMatch.name,
         orgNumber |-> titleMatch.orgNumber,
         location |-> Trim(doc.location),
         status |-> "Active",
         revenue |-> metrics.revenue,
         employees |-> metrics.employees,
         description |-> OrUndefined(Trim(doc.description)),
         phone |-> OrUndefined(Trim(ReplaceFirst(doc.phone, Telefon, <<>>))),
         industry |-> IF Len(industries) > 0 THEN Some(industries) ELSE None]

\* The message of the error thrown when the title does not match.
CouldNotParseMessage == <<"Could not parse company name and org number from title">>

\* The catch block of getCompanyInfo: whatever was thrown inside the try block
\* is logged and a new error with a fixed message is thrown in its place.
CatchAndRethrow(thrown) == <<"Failed to get company information">>

Document(title, location, phone, metrics, industries, description) ==
    [title |-> title, location |-> location, phone |-> phone, metrics |-> metrics,
     industries |-> industries, description |-> description]

InfoNames == {<<"F", "o", "r", "t", "n", "o", "x", " ", "A", "k", "t", "i", "e", "b", "o", "l", "a", "g">>, <<"A", "l", "f", "a", " ", "A", "B">>, <<"A", " ", "-", " ", "B", " ", "A", "B">>, <<"X">>}

InfoOrgNumbers == {<<"5", "5", "6", "4", "6", "9", "-", "6", "2", "9", "1">>, <<"5", "5", "6", "6", "7", "7", "-", "8", "8", "9", "9">>}

\* What a title carries behind the name and the number.
TitleTails == {<<>>, <<" ", "-", " ", "A", "l", "l", "a", "b", "o", "l", "a", "g">>, <<" ", "-", " ", "5", "5", "9", "0", "0", "0", "-", "0", "0", "0", "1">>}

\* Titles with the pattern, with white space around them or not.
GoodTitles ==
    {pad \o name \o TitleSeparator \o org \o tail \o pad :
        name \in InfoNames, org \in InfoOrgNumbers, tail \in TitleTails,
        pad \in {<<>>, <<"\n", " ">>}}

\* Titles without the pattern.
BadTitles ==
    {<<>>, <<"F", "o", "r", "t", "n", "o", "x", " ", "A", "k", "t", "i", "e", "b", "o", "l", "a", "g">>, <<"F", "o", "r", "t", "n", "o", "x", " ", "A", "k", "t", "i", "e", "b", "o", "l", "a", "g", " ", "-", " ", "5", "5", "6", "4", "6", "-", "9", "6", "2", "9", "1">>,
     <<"F", "o", "r", "t", "n", "o", "x", " ", "A", "k", "t", "i", "e", "b", "o", "l", "a", "g", " ", "5", "5", "6", "4", "6", "9", "-", "6", "2", "9", "1">>, <<" ", "-", " ", "5", "5", "6", "4", "6", "9", "-", "6", "2", "9", "1">>,
     <<"S", "i", "d", "a", "n", " ", "k", "u", "n", "d", "e", " ", "i", "n", "t", "e", " ", "h", "i", "t", "t", "a", "s">>}

Documents ==
    {Document(title, location, phone, metrics, <<>>, <<>>) :
        title \in GoodTitles \cup BadTitles,
        location \in {<<>>, <<" ", "V", "ä", "x", "j", "ö", " ">>},
        phone \in {<<>>, <<"T", "e", "l", "e", "f", "o", "n", " ", "0", "4", "7", "0", "-", "7", "8", " ", "5", "0", " ", "0", "0">>},
        metrics \in {<<>>, <<<<"O", "m", "s", "ä", "t", "t", "n", "i", "n", "g", " ", "2", "0", "2", "3", " ", "1", " ", "2", "3", "4", " ", "5", "6", "7">>, <<"A", "n", "s", "t", "ä", "l", "l", "d", "a", " ", "4", "5">>>>}}
    \cup
    {Document(<<"F", "o", "r", "t", "n", "o", "x", " ", "A", "k", "t", "i", "e", "b", "o", "l", "a", "g", " ", "-", " ", "5", "5", "6", "4", "6", "9", "-", "6", "2", "9", "1">>, <<"V", "ä", "x", "j", "ö">>, <<>>, <<>>,
              <<<<"A", "f", "f", "ä", "r", "s", "s", "y", "s", "t", "e", "m">>, <<" ", "P", "r", "o", "g", "r", "a", "m", "v", "a", "r", "a", " ">>>>, <<" ", "B", "o", "k", "f", "ö", "r", "i", "n", "g", " ", "p", "å", " ", "n", "ä", "t", "e", "t", ".", " ">>)}

InfoPaths == {<<"/", "f", "o", "r", "e", "t", "a", "g", "/", "f", "o", "r", "t", "n", "o", "x", "-", "a", "k", "t", "i", "e", "b", "o", "l", "a", "g", "/", "v", "a", "x", "j", "o", "/", "a", "f", "f", "a", "r", "s", "s", "y", "s", "t", "e", "m", "/", "2", "K", "1", "2", "R", "4", "Z", "I", "5", "Y", "C", "R", "3">>}

InfoInit ==
    /\ pc = "idle"
    /\ params = NoParams
    /\ url = None
    /\ html = None
    /\ nextData = None
    /\ response = None
    /\ error = None
    /\ fetchCalls = 0
    /\ prev = None
    /\ random = 0

\* getCompanyInfo(path) up to the await of the request.
GetCompanyInfo(path) ==
    /\ pc = "idle"
    /\ url' = Some(Origin \o path)
    /\ fetchCalls' = fetchCalls + 1
    /\ pc' = "fetching"
    /\ UNCHANGED <<params, html, nextData, response, error, prev, random>>

\* The request resolves with a document: the rest of getCompanyInfo.  Without
\* a match of the title the try block throws, and the catch block throws anew.
InfoFetchOk(doc) ==
    /\ pc = "fetching"
    /\ html' = Some(doc)
    /\ LET titleMatch == TitleMatch(Trim(doc.title))
       IN  IF IsSome(titleMatch)
           THEN /\ response' = Some(CompanyInfo(doc, Get(titleMatch)))
                /\ pc' = "done"
                /\ UNCHANGED error
           ELSE /\ error' = Some(CatchAndRethrow(CouldNotParseMessage))
                /\ pc' = "failed"
                /\ UNCHANGED response
    /\ UNCHANGED <<params, url, nextData, fetchCalls, prev, random>>

\* The request fails: the catch block throws.
InfoFetchFail(cause) ==
    /\ pc = "fetching"
    /\ error' = Some(CatchAndRethrow(<<cause>>))
    /\ pc' = "failed"
    /\ UNCHANGED <<params, url, html, nextData, response, fetchCalls, prev, random>>

InfoNext ==
    \/ \E path \in InfoPaths : GetCompanyInfo(path)
    \/ \E doc \in Documents : InfoFetchOk(doc)
    \/ \E cause \in FetchCauses : InfoFetchFail(cause)

SpecInfo == InfoInit /\ [][InfoNext]_vars

-----------------------------------------------------------------------------
(* Properties.                                                             *)

\* The page the finished call was served, and its response.
Page == Get(html)

Results == Get(response).results

Sort == params.sort

\* Whether the call ended with the error of the sort validation.
InvalidParameter == IsSome(error) /\ Get(error)[1] = "Invalid sort parameter"

\* An optional number lies within optional bounds; an absent number does.
InRange(v, from, to) ==
    \/ v = None
    \/ /\ (IsSome(from) => Get(v) >= Get(from))
       /\ (IsSome(to) => Get(v) <= Get(to))

\* The entry r reports the company of heading h of the page.
EntryOf(r, h) == r.name = Trim(h.text) /\ r.link = Origin \o h.href

\* The label under which a card would expose a profit ("Resultat").
Resultat == <<"R", "e", "s", "u", "l", "t", "a", "t">>

ExposesProfit(h) == Includes(CardText(h), Resultat)

\* C1: a supplied sort is accepted exactly when it is one of the eleven
\* enumerated values: for those the call does not fail on validation, and for
\* every other string the call has failed with the invalid-parameter error and
\* has made no fetch.
C1_ExactlyElevenSortValues ==
    (pc # "idle" /\ IsSome(Sort)) =>
        IF Get(Sort) \in SortValues
        THEN ~InvalidParameter
        ELSE pc = "failed" /\ InvalidParameter /\ fetchCalls = 0

\* C2: when the call is rejected for its sort value, the message of the error
\* contains the rejected value.
C2_ErrorCarriesSortValue ==
    (pc = "failed" /\ InvalidParameter) =>
        \E i \in 1..Len(Get(error)) : Get(error)[i] = Get(Sort)

\* C3: no call with a supplied sort outside the enumeration passes the
\* validation, gets a URL without a sort key and goes on to fetch.
C3_NoSilentlyIgnoredSort ==
    ~(/\ IsSome(Sort)
      /\ Get(Sort) \notin SortValues
      /\ pc \in {"fetching", "done"}
      /\ fetchCalls > 0
      /\ \A i \in 1..Len(Get(url).queryParams) : Get(url).queryParams[i].key # "sort")

\* C4: every returned entry respects the supplied bounds on the fields it has:
\* revenueFrom <= revenue <= revenueTo and
\* numEmployeesFrom <= employees <= numEmployeesTo.
C4_RangeFilterSound ==
    pc = "done" =>
        \A i \in 1..Len(Results) :
            /\ InRange(Results[i].revenue, params.revenueFrom, params.revenueTo)
            /\ InRange(Results[i].employees, params.numEmployeesFrom,
                       params.numEmployeesTo)

C6_TotalCountFromHeading ==
    pc = "done" => Get(response).totalCount = extractTotalCount(Page)

\* C7: every returned entry reports a company heading of the fetched page; a
\* page without company headings whose population heading says zero gives
\* totalCount = 0 and no results.
C7_NoSyntheticEntries ==
    pc = "done" =>
        /\ \A i \in 1..Len(Results) :
               \E j \in 1..Len(Page) : EntryOf(Results[i], Page[j])
        /\ (/\ findCompanyElements(Page) = <<>>
            /\ \E j \in 1..Len(Page) : Includes(Page[j].text, Foretag)
            /\ extractTotalCount(Page) = 0)
           => Get(response) = [results |-> <<>>, totalCount |-> 0]

\* C8: a returned entry has a profit only when the card of its company exposes
\* one; an entry with a revenue and no profit on the page has no profit.
C8_ProfitOnlyFromPage ==
    pc = "done" =>
        \A i \in 1..Len(Results) :
            IsSome(Results[i].profit) =>
                \E j \in 1..Len(Page) :
                    EntryOf(Results[i], Page[j]) /\ ExposesProfit(Page[j])

\* C9: a second call with the same parameters that is served the same page
\* returns the response of the first call.
C9_SameInputSameResponse ==
    (pc = "done" /\ IsSome(prev)) => response = prev

\* C10: when no heading of the page carries the population phrase the response
\* has totalCount = 0, and the totalCount of every response is at least 0.
C10_TotalCountZeroWithoutHeading ==
    pc = "done" =>
        /\ (\A j \in 1..Len(Page) : ~Includes(Page[j].text, Foretag))
               => Get(response).totalCount = 0
        /\ Get(response).totalCount >= 0

\* The first heading of the page whose text contains "företag".
FirstCountHeading(page) ==
    (SelectSeq(page, LAMBDA h : Includes(h.text, Foretag)))[1]

\* C11: when the first heading with the "företag" phrase writes the number n
\* in space-separated groups before the word (white space around it or not),
\* extractTotalCount returns n; "13 170 företag" gives 13170.
C11_GroupedCountParsed ==
    pc = "done" =>
        \A n \in Populations :
            Trim(FirstCountHeading(Get(html)).text) = CountText(n)
                => response = Some(n)

\* C11 witness: the heading "13 170 företag" has been read as 13170.
C11_Witness ==
    /\ pc = "done"
    /\ Trim(FirstCountHeading(Get(html)).text) = <<"1", "3", " ", "1", "7", "0", " ", "f", "ö", "r", "e", "t", "a", "g">>
    /\ response = Some(13170)

\* The value of query key k in the built URL, None when the key is absent.
UrlValue(k) ==
    LET parts == SelectSeq(Get(url).queryParams, LAMBDA q : q.key = k)
    IN  IF parts = <<>> THEN None ELSE Some(parts[1].value)

TokensCapitalized(v) ==
    \A i \in 1..Len(v) :
        v[i] = IF i = 1 \/ IsSpace(v[i - 1]) THEN toUpperCase(v[i])
               ELSE toLowerCase(v[i])

\* Texts v and w have the same characters outside white space, case aside.
SameTokens(v, w) ==
    LET a == DropSpaces(v)
        b == DropSpaces(w)
    IN  [i \in 1..Len(a) |-> toLowerCase(a[i])] = [i \in 1..Len(b) |-> toLowerCase(b[i])]

\* C13: the location of the built URL is the URL-encoded form of the request
\* location with every white-space-separated token capitalized: first
\* character in upper case, the rest in lower case, whatever white space
\* separates the tokens.
C13_LocationTokensCapitalized ==
    (pc \in {"built", "rebuilt"} /\ TruthyText(params.location)) =>
        /\ IsSome(UrlValue("location"))
        /\ LET v == decodeURIComponent(Get(UrlValue("location")))
           IN  /\ Get(UrlValue("location")) = encodeURIComponent(v)
               /\ SameTokens(v, Get(params.location))
               /\ TokensCapitalized(v)

\* The parameters that the caller supplied: a text or a sort that is not
\* empty, a number that is present.
Supplied ==
    [location |-> TruthyText(params.location),
     proffIndustryCode |-> TruthyText(params.proffIndustryCode),
     companyType |-> TruthyText(params.companyType),
     revenueFrom |-> IsSome(params.revenueFrom),
     revenueTo |-> IsSome(params.revenueTo),
     numEmployeesFrom |-> IsSome(params.numEmployeesFrom),
     numEmployeesTo |-> IsSome(params.numEmployeesTo),
     sort |-> TruthyStr(params.sort),
     page |-> IsSome(params.page)]

\* C14: each of the nine query keys is in the built URL exactly when its
\* parameter was supplied, once, and no key of the URL has an empty value;
\* page is there exactly when the caller supplied it, with the caller's value.
C14_KeysExactlySupplied ==
    pc \in {"built", "rebuilt"} =>
        LET parts == Get(url).queryParams
        IN  /\ \A k \in DOMAIN Supplied :
                   Cardinality({i \in 1..Len(parts) : parts[i].key = k})
                       = IF Supplied[k] THEN 1 ELSE 0
            /\ \A i \in 1..Len(parts) :
                   parts[i].key \in DOMAIN Supplied /\ parts[i].value # <<>>
            /\ IsSome(params.page) => UrlValue("page") = Some(ToChars(Get(params.page)))

\* C14 witness: a URL built without a page has no page key, and its only keys
\* are the supplied location and revenueFrom = 0.
C14_Witness ==
    /\ pc = "built"
    /\ params.page = None
    /\ params.revenueFrom = Some(0)
    /\ Get(url).queryParams =
           <<QueryParam("location", <<"U", "m", "e", "%", "C", "3", "%", "A", "5">>), QueryParam("revenueFrom", <<"0">>)>>

\* C15: a call with location "umeå" fetches a URL with location=Ume%C3%A5, and
\* the location of every entry it returns contains "Umeå" (the pages of the
\* model list companies of Umeå only).
C15_UmeaCapitalizedInEntries ==
    (pc \in {"fetching", "done"} /\ params.location = Some(Umea)) =>
        /\ UrlValue("location") = Some(<<"U", "m", "e", "%", "C", "3", "%", "A", "5">>)
        /\ pc = "done" =>
               \A i \in 1..Len(Results) : Includes(Results[i].location, <<"U", "m", "e", "å">>)

\* The sentinel of an absent organisation number.
NotAvailable == <<"N", "/", "A">>

\* Text t has the registry format: six digits, a hyphen, four digits.
IsOrgNumber(t) ==
    /\ Len(t) = 11
    /\ t[7] = "-"
    /\ \A i \in (1..11) \ {7} : IsDigit(t[i])

\* C16: the orgNumber of every returned entry is "N/A" or has the registry
\* format NNNNNN-NNNN.
C16_OrgNumberWellFormed ==
    pc = "done" =>
        \A i \in 1..Len(Results) :
            Results[i].orgNumber = NotAvailable \/ IsOrgNumber(Results[i].orgNumber)

\* C17: the entry of a company whose card has no div with the "Org.nr" label
\* has orgNumber "N/A".
C17_AbsentOrgNumberIsSentinel ==
    pc = "done" =>
        \A i \in 1..Len(Results) : \A j \in 1..Len(Page) :
            (EntryOf(Results[i], Page[j]) /\ FindDivTexts(Page[j].card, OrgNr) = <<>>)
                => Results[i].orgNumber = NotAvailable

\* The entry r has every field that the block entry b supplies, from b.
FromBlock(r, b) ==
    /\ r.name = b.name
    /\ IsSome(b.organisationNumber) => r.orgNumber = Get(b.organisationNumber)
    /\ IsSome(b.numberOfEmployees) => r.employees = b.numberOfEmployees
    /\ IsSome(b.revenue) => r.revenue = b.revenue

\* C18: when the fetched page embeds a data block that lists its companies,
\* the response has one entry per listed company, in that order, and each
\* field the block supplies has the block's value, never the value the DOM
\* heuristics find.
C18_DataBlockPreferred ==
    (pc = "done" /\ IsSome(nextData)) =>
        /\ Len(Results) = Len(Get(nextData))
        /\ \A i \in 1..Len(Results) : FromBlock(Results[i], Get(nextData)[i])

\* The document getCompanyInfo was served.
Doc == Get(html)

\* C19: getCompanyInfo returns a record only for a title with the pattern
\* "<name> - <6 digits>-<4 digits>"; for any other title it fails, and the
\* error it throws then is the "could not parse" error, which no failed
\* request produces.
C19_ParseFailureDistinct ==
    /\ pc = "done" => IsSome(TitleMatch(Trim(Doc.title)))
    /\ (pc \in {"done", "failed"} /\ IsSome(html) /\ TitleMatch(Trim(Doc.title)) = None)
           => (pc = "failed" /\ response = None /\ error = Some(CouldNotParseMessage))
    /\ (pc = "failed" /\ html = None) => error # Some(CouldNotParseMessage)

\* C20: for a document whose title begins with a name of the model, " - " and
\* an organisation number, getCompanyInfo returns that name, that number and
\* the status "Active".
C20_TitleGivesNameAndOrgNumber ==
    (pc \in {"done", "failed"} /\ IsSome(html)) =>
        \A name \in InfoNames, org \in InfoOrgNumbers :
            MatchesAt(Trim(Doc.title), name \o TitleSeparator \o org, 1)
                => /\ pc = "done"
                   /\ Get(response).name = name
                   /\ Get(response).orgNumber = org
                   /\ Get(response).status = "Active"

\* C20 witness: the title "Fortnox Aktiebolag - 556469-6291" gave the name
\* "Fortnox Aktiebolag" and the number "556469-6291".
C20_Witness ==
    /\ pc = "done"
    /\ Doc.title = <<"F", "o", "r", "t", "n", "o", "x", " ", "A", "k", "t", "i", "e", "b", "o", "l", "a", "g", " ", "-", " ", "5", "5", "6", "4", "6", "9", "-", "6", "2", "9", "1">>
    /\ Get(response).name = <<"F", "o", "r", "t", "n", "o", "x", " ", "A", "k", "t", "i", "e", "b", "o", "l", "a", "g">>
    /\ Get(response).orgNumber = <<"5", "5", "6", "4", "6", "9", "-", "6", "2", "9", "1">>
    /\ Get(response).status = "Active"

\* Whether the call ended because fetchPage threw.
FetchFailed == pc = "failed" /\ ~InvalidParameter

\* C21: a call makes at most one fetch: none before it starts and none when the
\* validation rejects it, exactly one once the validation has passed, and still
\* one after the fetch has failed (the failed fetch is not repeated).
C21_AtMostOneFetch ==
    /\ fetchCalls \in {0, 1}
    /\ pc = "idle" => fetchCalls = 0
    /\ (pc = "failed" /\ InvalidParameter) => fetchCalls = 0
    /\ pc \in {"fetching", "done"} => fetchCalls = 1
    /\ FetchFailed => fetchCalls = 1

\* A call whose only fetch has failed.
C21_Witness == FetchFailed /\ fetchCalls = 1 /\ IsSome(url)

\* C22: when the fetch fails the call ends with the one error
\* "Failed to fetch page: <cause>" and has returned no response.
C22_FetchFailureSurfaces ==
    FetchFailed =>
        /\ response = None
        /\ \E cause \in FetchCauses :
               Get(error) = <<"Failed to fetch page: ", cause>>

\* A call that ended with the error of a failed connection.
C22_Witness ==
    /\ pc = "failed"
    /\ error = Some(<<"Failed to fetch page: ", "Network Error">>)
    /\ response = None

\* C23: under every interleaving of two calls in flight, the response of a
\* call is the one the same call returns for its parameters and its page when
\* it runs alone in the process (the generator untouched by another call).
C23_CallsIndependent ==
    \A c \in Calls :
        pc[c] = "done" =>
            response[c] = Some(SearchResponse(params[c], Get(html[c]), 0))

\* A date as a number that orders dates by time.
DateOrder(d) == d.year * 10000 + d.month * 100 + d.day

NonIncreasing(values) ==
    \A i \in 1..(Len(values) - 1) : values[i] >= values[i + 1]

\* C24: a call with sort revenueDesc, registrationDateDesc or profitDesc, with
\* whatever other parameters, returns results that are not empty, that carry the
\* field of the sort (every entry for revenue and registration date, the first
\* entry for profit), and whose present values of it never increase.
C24_DescendingSortOrdered ==
    pc = "done" =>
        /\ Sort \in {Some("revenueDesc"), Some("registrationDateDesc"), Some("profitDesc")}
               => Results # <<>>
        /\ Sort = Some("revenueDesc")
               => /\ \A i \in 1..Len(Results) : IsSome(Results[i].revenue)
                  /\ NonIncreasing([i \in 1..Len(Results) |-> Get(Results[i].revenue)])
        /\ Sort = Some("registrationDateDesc")
               => /\ \A i \in 1..Len(Results) : IsSome(Results[i].registrationDate)
                  /\ NonIncreasing([i \in 1..Len(Results) |->
                                       DateOrder(Get(Results[i].registrationDate))])
        /\ Sort = Some("profitDesc")
               => /\ IsSome(Results[1].profit)
                  /\ LET has == SelectSeq(Results, LAMBDA r : IsSome(r.profit))
                     IN  NonIncreasing([i \in 1..Len(has) |-> Get(has[i].profit)])

\* A heading that advertises or that states the population, not a company.
NotACompany(h) ==
    \/ \E i \in 1..Len(OtherHeadings) : h = OtherHeadings[i]
    \/ h \in CountHeadings

\* The headings of the page that carry a company: an anchor to a company page,
\* and neither an advertisement nor the population heading.
CompanyHeadings(page) ==
    SelectSeq(page, LAMBDA h : Includes(h.href, ForetagPath) /\ ~NotACompany(h))

\* C25: the fragments located on the fetched page are its company headings,
\* one fragment for each in page order; a company whose name contains a word of
\* the filter is located like any other.
C25_OneFragmentPerCompanyHeading ==
    pc = "done" => findCompanyElements(Page) = CompanyHeadings(Page)

\* A heading from which neither a name nor a link can be taken.
Empty(h) == Trim(h.text) = <<>> /\ h.href = <<>>

\* C26: no returned entry lacks both a name and a detail link (the link of an
\* entry without one is the bare origin of the site).
C26_NoEntryWithoutNameAndLink ==
    pc = "done" =>
        \A i \in 1..Len(Results) :
            \/ Results[i].name # <<>>
            \/ Results[i].link \notin {<<>>, Origin}

\* A response with an entry, read from a page that also has a heading without
\* name and link.
C26_Witness ==
    /\ pc = "done"
    /\ \E j \in 1..Len(Page) : Empty(Page[j])
    /\ \E j \in 1..Len(Page) :
           /\ ~Empty(Page[j])
           /\ \E i \in 1..Len(Results) : EntryOf(Results[i], Page[j])

RECURSIVE IsSubsequence(_, _)
\* Whether the entries rs report, in this order and each once, headings of the
\* sequence hs taken in the order of hs.
IsSubsequence(rs, hs) ==
    IF rs = <<>> THEN TRUE
    ELSE IF hs = <<>> THEN FALSE
    ELSE IF EntryOf(Head(rs), Head(hs)) THEN IsSubsequence(Tail(rs), Tail(hs))
    ELSE IsSubsequence(rs, Tail(hs))

\* C27: the results are, in page order, some of the entries of the fragments
\* located on the page, none twice and none added, so that there are at most
\* as many results as fragments.
C27_ResultsSubsequenceOfPage ==
    pc = "done" =>
        /\ IsSubsequence(Results, findCompanyElements(Page))
        /\ Len(Results) <= Len(findCompanyElements(Page))

\* The text that accompanies a label on a card: what follows the label in the
\* first div that contains it, trimmed; None on a card without the label.
LabelText(h, label) ==
    LET texts == FindDivTexts(h.card, label)
    IN  IF texts = <<>> THEN None
        ELSE Some(Trim(Sub(texts[1], IndexOf(texts[1], label) + Len(label),
                           Len(texts[1]))))

\* A number written in digits, with or without spaces between groups of them.
IsGroupedNumber(t) ==
    /\ t # <<>>
    /\ IsDigit(t[1])
    /\ \A i \in 1..Len(t) : IsDigit(t[i]) \/ t[i] = " "

\* The integer a grouped number denotes.
GroupedValue(t) == ParseDigits(DropSpaces(t))

\* C28: the employees of a returned entry are absent, or the integer that the
\* text beside "Anställda" on its card denotes as a grouped number ("45" is 45,
\* "13 170" is 13170); a text that is no grouped number, such as "1-4", gives no
\* integer.
C28_EmployeesIsTheGroupedNumber ==
    pc = "done" =>
        \A i \in 1..Len(Results) : \A j \in 1..Len(Page) :
            EntryOf(Results[i], Page[j]) =>
                LET text == LabelText(Page[j], Anstallda)
                IN  \/ Results[i].employees = None
                    \/ /\ IsSome(text)
                       /\ IsGroupedNumber(Get(text))
                       /\ Results[i].employees = Some(GroupedValue(Get(text)))

\* Whether the text beside "Omsättning" begins with a year: four digits and a
\* space (the groups of an amount have at most three digits).
BeginsWithYear(t) ==
    /\ Len(t) >= 5
    /\ \A i \in 1..4 : IsDigit(t[i])
    /\ t[5] = " "

\* The amount of that text: what follows the year, or all of it.
AmountText(t) == IF BeginsWithYear(t) THEN Trim(Sub(t, 6, Len(t))) ELSE t

\* C29: for a card with the text "Omsättning <YYYY> <amount>" the entry has
\* revenueYear = YYYY and revenue = the amount, and for "Omsättning <amount>"
\* it has no revenueYear and revenue = the amount: no digit of the amount is
\* taken for the year and none of the year enters the amount.
C29_YearApartFromAmount ==
    pc = "done" =>
        \A i \in 1..Len(Results) : \A j \in 1..Len(Page) :
            LET text == LabelText(Page[j], Omsattning)
            IN  (/\ EntryOf(Results[i], Page[j])
                 /\ IsSome(text)
                 /\ IsGroupedNumber(AmountText(Get(text))))
                => /\ Results[i].revenueYear =
                          (IF BeginsWithYear(Get(text))
                           THEN Some(SubSeq(Get(text), 1, 4)) ELSE None)
                   /\ Results[i].revenue = Some(GroupedValue(AmountText(Get(text))))

\* The label under which a card states the date of registration.
RegistreradDatum == <<"R", "e", "g", "i", "s", "t", "r", "e", "r", "a", "d", " ", "d", "a", "t", "u", "m">>

\* The date a card states beside that label in the form YYYY-MM-DD (the months
\* of a Date count from 0); None on a card without the label or the form.
WrittenDate(h) ==
    LET text == LabelText(h, RegistreradDatum)
        t == Get(text)
    IN  IF /\ IsSome(text)
           /\ Len(t) = 10
           /\ \A i \in {1, 2, 3, 4, 6, 7, 9, 10} : IsDigit(t[i])
           /\ t[5] = "-" /\ t[8] = "-"
        THEN Some(Date(ParseDigits(SubSeq(t, 1, 4)), ParseDigits(SubSeq(t, 6, 7)) - 1,
                       ParseDigits(SubSeq(t, 9, 10))))
        ELSE None

\* C30: an entry has a registrationDate only when it reports a card of the page
\* that states one, and then it is the date stated there; an entry of a card
\* without the label has none, whatever the sort.
C30_RegistrationDateOnlyFromPage ==
    pc = "done" =>
        \A i \in 1..Len(Results) :
            IsSome(Results[i].registrationDate) =>
                \E j \in 1..Len(Page) :
                    /\ EntryOf(Results[i], Page[j])
                    /\ Results[i].registrationDate = WrittenDate(Page[j])

====
